---- MODULE Spec2Model ----
(***************************************************************************)
(* Model of tex-thmdep.py: process() (graph construction, bfs(), the       *)
(* max_dist filter) and extract() (the marker loop).                       *)
(*                                                                         *)
(* Python's None is the empty tuple <<>>, an integer n is <<n>>.           *)
(* A string is the sequence of its characters.                             *)
(***************************************************************************)
EXTENDS Integers, Sequences, FiniteSets, Bags, TLC

VARIABLES
    edges,             \* main(): the edge list extract() fills and process() reads
    ignore_envs,       \* options['ignore_envs']
    exclude_prefixes,  \* options['exclude_prefixes']
    text,              \* main(), line 170: s, where the run is given by its text
    docs,              \* per input file, the matches re.finditer has yielded so far
    curr_node,         \* extract(): locals
    ignore_mode,
    empty_thm_warned,
    warnings,          \* stderr: the ifpath of every warning printed
    max_dist,          \* process(): locals
    nodes,
    seen_edges,
    i,
    q,                 \* bfs(): the deque
    enqueues,          \* bfs(): how many times q.append has been called
    expansions,        \* bfs(): the nodes whose adj the loop of line 82 has run over
    pc

extractVars == <<ignore_envs, exclude_prefixes, text, docs, curr_node, ignore_mode,
                 empty_thm_warned, warnings>>
bfsLog == <<enqueues, expansions>>
processVars == <<max_dist, nodes, seen_edges, i, q, bfsLog>>
vars == <<edges, extractVars, processVars, pc>>

\* ---------------------------------------------------------------- bounds
NumLabels == 3      \* labels of the edge lists given to process()
MaxEdges == 3       \* length of the edge lists given to process()
MaxThreshold == 1   \* largest max_dist
MaxMatches == 3     \* matches of ENTITY_RE in the input file
MaxFiles == 2       \* input files on the command line
MaxMainMatches == 2 \* matches of ENTITY_RE in all the input files of one run
MaxTextLen == 3     \* length of the text of an input file, in tokens

LabelNames == <<"A", "B", "C", "D", "E", "F">>
Labels == {LabelNames[k] : k \in 1..NumLabels}
Pairs == Labels \X Labels

RECURSIVE SeqsUpTo(_, _)
SeqsUpTo(S, n) ==
    IF n = 0 THEN {<<>>}
    ELSE LET shorter == SeqsUpTo(S, n - 1)
         IN  shorter \cup {Append(t, x) : t \in {r \in shorter : Len(r) = n - 1}, x \in S}

\* ---------------------------------------------------------------- values
None == <<>>
Some(n) == <<n>>
Val(o) == o[1]

VertexInfo == [adj |-> <<>>, radj |-> <<>>, dist |-> None, visited |-> FALSE]

Range(s) == {s[k] : k \in 1..Len(s)}

\* nodes[u] on a defaultdict: the entry is created when it is missing
Lookup(ns, u) == IF u \in DOMAIN ns THEN ns ELSE ns @@ (u :> VertexInfo)

\* faulty variant: the seen_edges test never succeeds
SeenNever(se, u, v) == FALSE

\* process(), line 94: (u, v) in seen_edges
Seen(se, u, v) == <<u, v>> \in se

\* faulty variant: the two adjacency lists are taken for one another
LinkSwapped(ns, u, v) ==
    LET n1 == Lookup(ns, u)
        n2 == [n1 EXCEPT ![u].radj = Append(@, v)]
        n3 == Lookup(n2, v)
    IN  [n3 EXCEPT ![v].adj = Append(@, u)]

\* process(), lines 96-97
Link(ns, u, v) ==
    LET n1 == Lookup(ns, u)
        n2 == [n1 EXCEPT ![u].adj = Append(@, v)]
        n3 == Lookup(n2, v)
    IN  [n3 EXCEPT ![v].radj = Append(@, u)]

\* faulty variant: every node is taken for a root
IsRootAlways(uinf) == TRUE

\* faulty variant: the forward list is tested instead of the backward one
IsRootLeaf(uinf) == uinf.adj = <<>>

\* bfs(), line 74: not uinf.radj
IsRoot(uinf) == uinf.radj = <<>>

\* faulty variant: the distance is written on every visit of an edge
NeedsUpdateAlways(vdist, udist) == TRUE

\* faulty variant: the None test is left out
NeedsUpdateOnlyLower(vdist, udist) == vdist # None /\ Val(vdist) > Val(udist) + 1

\* faulty variant: a popped node is expanded whether visited or not
ShouldExpandAlways(uinf) == TRUE

\* bfs(), line 80
ShouldExpand(uinf) == ~uinf.visited

\* bfs(), line 85: the test that guards the distance write
NeedsUpdate(vdist, udist) == vdist = None \/ Val(vdist) > Val(udist) + 1

\* bfs(), lines 82-87: the for loop over nodes[u].adj, from position k on
RECURSIVE Expand(_, _, _, _)
Expand(ns, qq, u, k) ==
    IF k > Len(ns[u].adj) THEN [nodes |-> ns, q |-> qq]
    ELSE LET v == ns[u].adj[k]
         IN  IF ns[v].visited THEN Expand(ns, qq, u, k + 1)
             ELSE LET n1 == IF NeedsUpdate(ns[v].dist, ns[u].dist)
                            THEN [ns EXCEPT ![v].dist = Some(Val(ns[u].dist) + 1)]
                            ELSE ns
                  IN  Expand(n1, Append(qq, v), u, k + 1)

\* the orders in which a dict of these keys can be iterated
Orders(S) == {s \in [1..Cardinality(S) -> S] : Range(s) = S}

\* faulty variant: the comparison is turned around
BadNodesBelow(ns, md) == {v \in DOMAIN ns : ns[v].dist # None /\ Val(ns[v].dist) < Val(md)}

\* process(), lines 103-105 where every comparison is defined
BadNodes(ns, md) == {v \in DOMAIN ns : ns[v].dist # None /\ Val(ns[v].dist) > Val(md)}

\* faulty variant: the kept entries are collected in front of the list
RECURSIVE KeepReversed(_, _)
KeepReversed(s, keep) ==
    IF s = <<>> THEN <<>>
    ELSE IF Head(s) \in keep THEN KeepReversed(Tail(s), keep) \o <<Head(s)>>
         ELSE KeepReversed(Tail(s), keep)

\* a list comprehension [v for v in s if v in keep]
RECURSIVE Keep(_, _)
Keep(s, keep) ==
    IF s = <<>> THEN <<>>
    ELSE IF Head(s) \in keep THEN <<Head(s)>> \o Keep(Tail(s), keep)
         ELSE Keep(Tail(s), keep)

\* faulty variant: the backward lists are not rewritten
PruneAdjOnly(ns, bad) ==
    LET kept == DOMAIN ns \ bad
    IN  [u \in kept |-> [ns[u] EXCEPT !.adj = Keep(ns[u].adj, kept)]]

\* process(), lines 106-110
Prune(ns, bad) ==
    LET kept == DOMAIN ns \ bad
    IN  [u \in kept |-> [ns[u] EXCEPT !.adj = Keep(ns[u].adj, kept),
                                      !.radj = Keep(ns[u].radj, kept)]]

\* ---------------------------------------------------------------- extract()
Letters == {"a", "b"}
Comma == ","

\* texts that [^}]* captures as the argument of \label, \begin and \end and
\* as the second argument of \thmdep
ArgTexts == {<<>>, <<"a">>, <<"b">>}

\* texts that [^}]* captures as the first argument of \thmdep: the empty
\* text, b, "a,b", "ba,ab" and "b,,b"
LemsTexts ==
    {<<>>,
     <<"b">>,
     <<"a", Comma, "b">>,
     <<"b", "a", Comma, "a", "b">>,
     <<"b", Comma, Comma, "b">>}

\* A match of ENTITY_RE.  A group that took no part in the match (None in
\* Python) is absent from the record.  Group 1 (thmdep or thmdepcref) is
\* never read by extract().
CmdMatch(cmd, arg) == [group4 |-> cmd, group5 |-> arg]
DepMatch(lems, thm) == [group2 |-> lems, group3 |-> thm]
Matches ==
    {CmdMatch(c, a) : c \in {"label", "begin", "end"}, a \in ArgTexts}
        \cup {DepMatch(l, t) : l \in LemsTexts, t \in ArgTexts}

\* the option sets main() builds at lines 161-162: no excluded prefix and
\* one ignored environment, or one excluded prefix and two ignored ones
OptionChoices ==
    {[ignore_envs |-> {<<"a">>}, exclude_prefixes |-> {}],
     [ignore_envs |-> {<<"a">>, <<"b">>}, exclude_prefixes |-> {<<"a">>}]}

\* str.startswith(p)
StartsWith(s, p) == Len(p) <= Len(s) /\ SubSeq(s, 1, Len(p)) = p

\* str.startswith(tuple)
StartsWithAny(s, prefixes) == \E p \in prefixes : StartsWith(s, p)

\* str.split(',')
RECURSIVE Split(_)
Split(s) ==
    IF \A k \in 1..Len(s) : s[k] # Comma THEN <<s>>
    ELSE LET k == CHOOSE j \in 1..Len(s) :
                      s[j] = Comma /\ \A h \in 1..(j - 1) : s[h] # Comma
         IN  <<SubSeq(s, 1, k - 1)>> \o Split(SubSeq(s, k + 1, Len(s)))

\* faulty variant: an \end of any environment leaves the ignored region
IgnoreAfterAnyEnd(ig, cmd, arg, envs) ==
    IF ig THEN (IF cmd = "end" THEN FALSE ELSE ig)
    ELSE (IF cmd = "begin" /\ arg \in envs THEN TRUE ELSE ig)

\* extract(), lines 40-45: ignore_mode after a \label, \begin or \end
IgnoreAfter(ig, cmd, arg, envs) ==
    IF ig THEN (IF cmd = "end" /\ arg \in envs THEN FALSE ELSE ig)
    ELSE (IF cmd = "begin" /\ arg \in envs THEN TRUE ELSE ig)

\* faulty variant: a \label is honoured inside an ignored environment
CurrAfterAlways(curr, ig, cmd, arg, envs) ==
    IF cmd = "label" THEN arg ELSE curr

\* extract(), lines 40-47: curr_node after a \label, \begin or \end
CurrAfter(curr, ig, cmd, arg, envs) ==
    IF ig THEN curr
    ELSE IF cmd = "begin" /\ arg \in envs THEN curr
    ELSE IF cmd = "label" THEN arg
    ELSE curr

\* faulty variant: an empty thm is not replaced by curr_node
TargetExplicit(thm, curr) == thm

\* extract(), lines 50-51
Target(thm, curr) == IF thm = <<>> THEN curr ELSE thm

\* faulty variant: empty_thm_warned is not consulted
MustWarnEveryTime(thm, curr, warned) == thm = <<>> /\ curr = <<>>

\* extract(), lines 50-52
MustWarn(thm, curr, warned) == thm = <<>> /\ curr = <<>> /\ ~warned

\* extract(), lines 56-57
Excluded(lem, thm, prefixes) ==
    ~(~StartsWithAny(lem, prefixes) /\ ~StartsWithAny(thm, prefixes))

\* faulty variant: a pair the edge list already holds is not appended again
RECURSIVE EmitUnique(_, _, _, _)
EmitUnique(es, lems, thm, prefixes) ==
    IF lems = <<>> THEN es
    ELSE IF Excluded(Head(lems), thm, prefixes) \/ <<thm, Head(lems)>> \in Range(es)
         THEN EmitUnique(es, Tail(lems), thm, prefixes)
         ELSE EmitUnique(Append(es, <<thm, Head(lems)>>), Tail(lems), thm, prefixes)

\* extract(), lines 55-58: the edge list after the loop over lems.split(',')
RECURSIVE Emit(_, _, _, _)
Emit(es, lems, thm, prefixes) ==
    IF lems = <<>> THEN es
    ELSE IF Excluded(Head(lems), thm, prefixes)
         THEN Emit(es, Tail(lems), thm, prefixes)
         ELSE Emit(Append(es, <<thm, Head(lems)>>), Tail(lems), thm, prefixes)

RECURSIVE TotalLen(_)
TotalLen(ds) == IF ds = <<>> THEN 0 ELSE Len(Head(ds)) + TotalLen(Tail(ds))

\* no extract() call has been made
ExtractIdle ==
    /\ text = <<>>
    /\ docs = <<>>
    /\ curr_node = <<>>
    /\ ignore_mode = FALSE
    /\ empty_thm_warned = FALSE
    /\ warnings = <<>>

\* no process() call has been made
ProcessIdle ==
    /\ max_dist = None
    /\ nodes = <<>>
    /\ seen_edges = {}
    /\ i = 1
    /\ q = <<>>
    /\ enqueues = 0
    /\ expansions = EmptyBag

\* main(), lines 160-167
ExtractInit ==
    /\ edges = <<>>
    /\ \E o \in OptionChoices :
        /\ ignore_envs = o.ignore_envs
        /\ exclude_prefixes = o.exclude_prefixes
    /\ ExtractIdle
    /\ ProcessIdle
    /\ pc = "main"

\* main(), lines 168-171 and extract(), lines 32-36: the file is read and
\* extract() starts on it
ExtractCall ==
    /\ pc = "main"
    /\ docs = <<>>
    /\ docs' = Append(docs, <<>>)
    /\ curr_node' = <<>>
    /\ ignore_mode' = FALSE
    /\ empty_thm_warned' = FALSE
    /\ UNCHANGED <<edges, ignore_envs, exclude_prefixes, text, warnings, processVars, pc>>

\* extract(), lines 38-58: the body of the loop for one match
HandleMatch(match) ==
    /\ docs' = [docs EXCEPT ![Len(docs)] = Append(@, match)]
    /\ IF "group4" \in DOMAIN match
       THEN LET cmd == match.group4
                arg == match.group5
            IN  /\ ignore_mode' = IgnoreAfter(ignore_mode, cmd, arg, ignore_envs)
                /\ curr_node' = CurrAfter(curr_node, ignore_mode, cmd, arg, ignore_envs)
                /\ UNCHANGED <<edges, empty_thm_warned, warnings>>
       ELSE IF ~ignore_mode
       THEN LET lems == match.group2
                thm == Target(match.group3, curr_node)
                warn == MustWarn(match.group3, curr_node, empty_thm_warned)
            IN  /\ warnings' = IF warn THEN Append(warnings, Len(docs)) ELSE warnings
                /\ empty_thm_warned' = (empty_thm_warned \/ warn)
                /\ edges' = Emit(edges, Split(lems), thm, exclude_prefixes)
                /\ UNCHANGED <<curr_node, ignore_mode>>
       ELSE UNCHANGED <<edges, curr_node, ignore_mode, empty_thm_warned, warnings>>

\* extract(), lines 37-58: one iteration of the loop over the matches
ProcessMatch ==
    /\ pc = "main"
    /\ docs # <<>>
    /\ TotalLen(docs) < MaxMatches
    /\ \E match \in Matches : HandleMatch(match)
    /\ UNCHANGED <<ignore_envs, exclude_prefixes, text, processVars, pc>>

ExtractNext ==
    \/ ExtractCall
    \/ ProcessMatch

ExtractSpec == ExtractInit /\ [][ExtractNext]_vars

\* ---------------------------------------------------------------- process()
MaxDists == {None} \cup {Some(n) : n \in (0 - 1)..MaxThreshold}

\* process() is called with an edge list; no file is involved
Init ==
    /\ edges \in SeqsUpTo(Pairs, MaxEdges)
    /\ ignore_envs = {}
    /\ exclude_prefixes = {}
    /\ ExtractIdle
    /\ ProcessIdle
    /\ pc = "build"

\* one iteration of the loop of lines 93-97
AddEdge ==
    /\ pc = "build"
    /\ i <= Len(edges)
    /\ LET u == edges[i][1]
           v == edges[i][2]
       IN  IF ~Seen(seen_edges, u, v)
           THEN /\ seen_edges' = seen_edges \cup {<<u, v>>}
                /\ nodes' = Link(nodes, u, v)
           ELSE UNCHANGED <<seen_edges, nodes>>
    /\ i' = i + 1
    /\ UNCHANGED <<edges, extractVars, max_dist, q, bfsLog, pc>>

\* bfs(), lines 72-76: every node without radj is enqueued with dist 0.  The
\* queue holds them in the order nodes.items() yields them: insertion order
\* on Python 3.7 and later, hash order before, so any order is allowed.
BfsInit ==
    /\ pc = "build"
    /\ i > Len(edges)
    /\ LET roots == {u \in DOMAIN nodes : IsRoot(nodes[u])}
       IN  /\ q' \in Orders(roots)
           /\ enqueues' = Cardinality(roots)
           /\ nodes' = [u \in DOMAIN nodes |->
                           IF u \in roots THEN [nodes[u] EXCEPT !.dist = Some(0)]
                           ELSE nodes[u]]
    /\ pc' = "bfs"
    /\ UNCHANGED <<edges, extractVars, max_dist, seen_edges, i, expansions>>

\* bfs(), lines 77-87: one iteration of the while loop
BfsPop ==
    /\ pc = "bfs"
    /\ q # <<>>
    /\ LET u == Head(q)
       IN  IF ShouldExpand(nodes[u])
           THEN LET r == Expand([nodes EXCEPT ![u].visited = TRUE], Tail(q), u, 1)
                IN  /\ nodes' = r.nodes
                    /\ q' = r.q
                    /\ enqueues' = enqueues + Len(r.q) - Len(Tail(q))
                    /\ expansions' = expansions (+) SetToBag({u})
           ELSE /\ q' = Tail(q)
                /\ UNCHANGED <<nodes, bfsLog>>
    /\ UNCHANGED <<edges, extractVars, max_dist, seen_edges, i, pc>>

\* bfs(), line 77: the queue is empty, bfs() returns to process()
BfsReturn ==
    /\ pc = "bfs"
    /\ q = <<>>
    /\ pc' = "filter"
    /\ UNCHANGED <<edges, extractVars, max_dist, nodes, seen_edges, i, q, bfsLog>>

\* process(), lines 100-112, with options['max_dist'] = md.  `None > int` is
\* False under Python 2, so the filter can run to the end whatever the
\* distances are.
Filter ==
    /\ pc = "filter"
    /\ \E md \in MaxDists :
        /\ max_dist' = md
        /\ LET bad_nodes == IF md = None THEN {} ELSE BadNodes(nodes, md)
           IN  nodes' = Prune(nodes, bad_nodes)
    /\ pc' = "done"
    /\ UNCHANGED <<edges, extractVars, seen_edges, i, q, bfsLog>>

\* process(), line 104 under Python 3: `None > int` raises TypeError, before
\* any node has been deleted
FilterRaise ==
    /\ pc = "filter"
    /\ \E md \in MaxDists \ {None} :
        /\ \E v \in DOMAIN nodes : nodes[v].dist = None
        /\ max_dist' = md
    /\ pc' = "TypeError"
    /\ UNCHANGED <<edges, extractVars, nodes, seen_edges, i, q, bfsLog>>

Next ==
    \/ AddEdge
    \/ BfsInit
    \/ BfsPop
    \/ BfsReturn
    \/ Filter
    \/ FilterRaise

Spec == Init /\ [][Next]_vars

\* the markers of the files of a run over several files
FileMatches ==
    {CmdMatch("label", <<"a">>), CmdMatch("begin", <<"a">>), CmdMatch("end", <<"a">>)}
        \cup {DepMatch(l, t) : l \in {<<"b">>, <<"b", "a", Comma, "a", "b">>}, t \in ArgTexts}

\* faulty variant: extract() goes on with what the previous call left
EntryLocalsStale ==
    [curr_node |-> curr_node, ignore_mode |-> ignore_mode,
     empty_thm_warned |-> empty_thm_warned]

\* extract(), lines 33-35
EntryLocals ==
    [curr_node |-> <<>>, ignore_mode |-> FALSE, empty_thm_warned |-> FALSE]

\* faulty variant: every file gets a list of its own
EntryEdgesFresh(es) == <<>>

\* main(), lines 167-171: the list made before the loop is the argument of
\* every extract() call
EntryEdges(es) == es

\* main(), lines 168-171 and extract(), lines 32-36: the next file is read
\* and extract() starts on it
NextFile ==
    /\ pc = "main"
    /\ Len(docs) < MaxFiles
    /\ docs' = Append(docs, <<>>)
    /\ edges' = EntryEdges(edges)
    /\ curr_node' = EntryLocals.curr_node
    /\ ignore_mode' = EntryLocals.ignore_mode
    /\ empty_thm_warned' = EntryLocals.empty_thm_warned
    /\ UNCHANGED <<ignore_envs, exclude_prefixes, text, warnings, processVars, pc>>

\* extract(), lines 37-58: one iteration of the loop over the matches
FileMatch ==
    /\ pc = "main"
    /\ docs # <<>>
    /\ TotalLen(docs) < MaxMainMatches
    /\ \E match \in FileMatches : HandleMatch(match)
    /\ UNCHANGED <<ignore_envs, exclude_prefixes, text, processVars, pc>>

\* main(), line 172: the loop over args.ifpaths is over, process() is called
ProcessCall ==
    /\ pc = "main"
    /\ Len(docs) = MaxFiles
    /\ pc' = "build"
    /\ UNCHANGED <<edges, extractVars, processVars>>

MainNext ==
    \/ NextFile
    \/ FileMatch
    \/ ProcessCall
    \/ Next

\* main(), lines 160-172
MainSpec == ExtractInit /\ [][MainNext]_vars

\* A text is a sequence of tokens: a character that matters to COMMENT_RE,
\* or a whole marker, which holds no such character.
Char(c) == [char |-> c]
Percent == Char("%")
Backslash == Char("\\")
Newline == Char("\n")
ScanMarkers ==
    {CmdMatch("label", <<"a">>), CmdMatch("begin", <<"a">>), DepMatch(<<"b">>, <<>>)}
Tokens == {Percent, Backslash, Newline} \cup ScanMarkers

\* COMMENT_RE matches at k: a % that no backslash precedes, with a newline
\* somewhere after it
CommentAt(s, k) ==
    /\ s[k] = Percent
    /\ k > 1 => s[k - 1] # Backslash
    /\ \E j \in (k + 1)..Len(s) : s[j] = Newline

\* re.sub(COMMENT_RE, '\n', s), line 36, from position k on: a match runs
\* up to the first newline after it and is replaced by one newline
RECURSIVE StripFrom(_, _)
StripFrom(s, k) ==
    IF k > Len(s) THEN <<>>
    ELSE IF CommentAt(s, k)
    THEN LET end == CHOOSE j \in (k + 1)..Len(s) :
                        s[j] = Newline /\ \A m \in (k + 1)..(j - 1) : s[m] # Newline
         IN  <<Newline>> \o StripFrom(s, end + 1)
    ELSE <<s[k]>> \o StripFrom(s, k + 1)

StripComments(s) == StripFrom(s, 1)

\* re.finditer(ENTITY_RE, s), line 37: the markers of s from left to right
FindAll(s) ==
    LET isMarker(t) == t \in ScanMarkers
    IN  SelectSeq(s, isMarker)

\* main(), lines 160-170: the options and the text of the one input file
ScanInit ==
    /\ edges = <<>>
    /\ \E o \in OptionChoices :
        /\ ignore_envs = o.ignore_envs
        /\ exclude_prefixes = o.exclude_prefixes
    /\ text \in SeqsUpTo(Tokens, MaxTextLen)
    /\ docs = <<>>
    /\ curr_node = <<>>
    /\ ignore_mode = FALSE
    /\ empty_thm_warned = FALSE
    /\ warnings = <<>>
    /\ ProcessIdle
    /\ pc = "main"

\* extract(), lines 36-58: one iteration of the loop over the matches found
\* in the text without its comments
ScanMatch ==
    /\ pc = "main"
    /\ docs # <<>>
    /\ LET found == FindAll(StripComments(text))
           n == Len(docs[Len(docs)])
       IN  /\ n < Len(found)
           /\ HandleMatch(found[n + 1])
    /\ UNCHANGED <<ignore_envs, exclude_prefixes, text, processVars, pc>>

ScanNext ==
    \/ ExtractCall
    \/ ScanMatch

ScanSpec == ScanInit /\ [][ScanNext]_vars

\* process(), lines 100-110 run once more on the mapping process() returned,
\* with the same options['max_dist']
FilterAgain ==
    /\ pc = "done"
    /\ LET bad_nodes == IF max_dist = None THEN {} ELSE BadNodes(nodes, max_dist)
       IN  nodes' = Prune(nodes, bad_nodes)
    /\ pc' = "filtered twice"
    /\ UNCHANGED <<edges, extractVars, max_dist, seen_edges, i, q, bfsLog>>

RefilterNext ==
    \/ Next
    \/ FilterAgain

RefilterSpec == Init /\ [][RefilterNext]_vars

\* the labels of an edge list in the order process() reads them
Flat(es) == [k \in 1..(2 * Len(es)) |-> es[(k + 1) \div 2][2 - (k % 2)]]

\* process() only compares labels for equality, so an edge list stands for
\* every list obtained by renaming its labels: the labels come into use in
\* the order of LabelNames
InFirstUseOrder(es) ==
    LET f == Flat(es)
        First(l) == CHOOSE k \in 1..Len(f) : f[k] = l /\ \A j \in 1..(k - 1) : f[j] # l
    IN  \A k \in 1..(NumLabels - 1) :
            LabelNames[k + 1] \in Range(f) =>
                /\ LabelNames[k] \in Range(f)
                /\ First(LabelNames[k]) < First(LabelNames[k + 1])

FairInit == Init /\ InFirstUseOrder(edges)

\* process() is straight-line code around loops over finite collections: a
\* step that can be taken is taken
FairSpec == FairInit /\ [][Next]_vars /\ WF_vars(Next)

\* ================================================================ claims
\* ---------------------------------------------------------------- graph notions
Keys == DOMAIN nodes
RootSet == {u \in Keys : Len(nodes[u].radj) = 0}
Succs(S) == {v \in Keys : \E u \in S : \E k \in 1..Len(nodes[u].adj) : nodes[u].adj[k] = v}

\* the nodes at the end of a walk of exactly k forward hops from a root
RECURSIVE WalkEnds(_)
WalkEnds(k) == IF k = 0 THEN RootSet ELSE Succs(WalkEnds(k - 1))

Reachable == UNION {WalkEnds(k) : k \in 0..Cardinality(Keys)}

\* the least number of forward hops from any root to v
Hops(v) ==
    CHOOSE k \in 0..Cardinality(Keys) :
        v \in WalkEnds(k) /\ \A j \in 0..(k - 1) : v \notin WalkEnds(j)

\* bfs() has returned and the filter has not run
AfterBfs == pc = "filter"

\* C1: after bfs(), every node reachable from a root along forward adjacency
\* has as distance the least number of forward hops from any root to it.
C1_BfsShortestDistance ==
    AfterBfs => \A v \in Reachable : nodes[v].dist = Some(Hops(v))

\* a graph with several roots and a reachable node that has a self-edge
C1_Witness ==
    /\ AfterBfs
    /\ Cardinality(RootSet) >= 2
    /\ \E v \in Reachable : v \in Succs({v}) /\ nodes[v].dist = Some(1)

Chain == <<<<"A", "B">>, <<"B", "C">>>>

\* C2 as stated: on the edges (A, B), (B, C) the distances are C: 0, B: 1,
\* A: 2, and max_dist = 1 removes A while B still lists C and nothing refers to A.
C2_Original ==
    /\ (edges = Chain /\ AfterBfs) =>
          /\ nodes["C"].dist = Some(0)
          /\ nodes["B"].dist = Some(1)
          /\ nodes["A"].dist = Some(2)
    /\ (edges = Chain /\ pc = "done" /\ max_dist = Some(1)) =>
          /\ "A" \notin Keys
          /\ "B" \in Keys
          /\ "B" \in Keys => nodes["B"].adj = <<"C">>
          /\ \A u \in Keys : "A" \notin Range(nodes[u].adj) \cup Range(nodes[u].radj)

\* C2, amended: on the edges (A, B), (B, C) the root is A: the distances are
\* A: 0, B: 1, C: 2, and max_dist = 1 removes C alone, A still lists B and no
\* retained adjacency list refers to C.
C2_ChainDistances ==
    /\ (edges = Chain /\ AfterBfs) =>
          /\ nodes["A"].dist = Some(0)
          /\ nodes["B"].dist = Some(1)
          /\ nodes["C"].dist = Some(2)
    /\ (edges = Chain /\ pc = "done" /\ max_dist = Some(1)) =>
          /\ Keys = {"A", "B"}
          /\ nodes["A"].adj = <<"B">>
          /\ \A u \in Keys : "C" \notin Range(nodes[u].adj) \cup Range(nodes[u].radj)

C2_Witness == edges = Chain /\ pc = "done" /\ max_dist = Some(1)

\* C3 as stated: with a finite threshold the filter completes and removes
\* exactly the nodes whose distance is set and greater than the threshold.
C3_FilterCompletes ==
    [][(pc = "filter" /\ pc' # "filter" /\ max_dist' # None) =>
          /\ pc' = "done"
          /\ DOMAIN nodes' =
                {v \in Keys : ~(nodes[v].dist # None /\ Val(nodes[v].dist) > Val(max_dist'))}]_vars

\* C4: after bfs(), a node has distance 0 exactly when its backward adjacency
\* is empty.
C4_ZeroIffRoot ==
    AfterBfs => \A v \in Keys : (nodes[v].dist = Some(0)) <=> (Len(nodes[v].radj) = 0)

\* a root, and a node that is no root and has a distance
C4_Witness ==
    /\ AfterBfs
    /\ \E u \in Keys : Len(nodes[u].radj) = 0
    /\ \E v \in Keys : Len(nodes[v].radj) > 0 /\ nodes[v].dist # None

\* C5: during and after bfs(), a node no root reaches is never in the queue,
\* is never marked visited and has no distance.
C5_UnreachableUntouched ==
    pc \in {"bfs", "filter"} =>
        \A v \in Keys \ Reachable :
            /\ v \notin Range(q)
            /\ nodes[v].dist = None
            /\ ~nodes[v].visited

\* bfs() has run on a graph with a reached part and an unreached part
C5_Witness ==
    /\ AfterBfs
    /\ Reachable # {}
    /\ Keys \ Reachable # {}

\* C6: the filter leaves every retained node with adjacency lists that name
\* retained nodes only, each being the list before the filter with the
\* dropped labels deleted and the order of the others kept.
C6_FilterPrunes ==
    [][(pc = "filter" /\ pc' = "done") =>
          \A u \in DOMAIN nodes' :
              LET retained(x) == x \in DOMAIN nodes'
              IN  /\ Range(nodes'[u].adj) \subseteq DOMAIN nodes'
                  /\ Range(nodes'[u].radj) \subseteq DOMAIN nodes'
                  /\ nodes'[u].adj = SelectSeq(nodes[u].adj, retained)
                  /\ nodes'[u].radj = SelectSeq(nodes[u].radj, retained)]_vars

\* the filter has run and a retained node had a retained node and then a
\* dropped node in its forward adjacency
C6_Witness ==
    /\ pc = "done"
    /\ \E j, k \in 1..Len(edges) :
        /\ j < k
        /\ edges[j][1] = edges[k][1]
        /\ edges[j][1] \in Keys
        /\ edges[j][2] \in Keys
        /\ edges[k][2] \notin Keys

NoDuplicates(s) == \A a, b \in 1..Len(s) : a # b => s[a] # s[b]

\* the position of the first occurrence of the pair p in the edge list
FirstIndex(p) ==
    CHOOSE k \in 1..Len(edges) : edges[k] = p /\ \A j \in 1..(k - 1) : edges[j] # p

RECURSIVE AdjEntries(_)
AdjEntries(S) ==
    IF S = {} THEN 0
    ELSE LET u == CHOOSE x \in S : TRUE
         IN  Len(nodes[u].adj) + AdjEntries(S \ {u})

\* the loop of lines 93-97 has ended and the filter has not run
Built == (pc = "build" /\ i > Len(edges)) \/ pc \in {"bfs", "filter"}

\* C7: after graph construction no adjacency list holds a label twice, the
\* forward entries are as many as the distinct pairs of the edge list (at most
\* its length), and every list is in first-seen order.
C7_EdgesDeduplicated ==
    Built =>
        /\ \A u \in Keys : NoDuplicates(nodes[u].adj) /\ NoDuplicates(nodes[u].radj)
        /\ AdjEntries(Keys) = Cardinality(Range(edges))
        /\ AdjEntries(Keys) <= Len(edges)
        /\ \A u \in Keys : \A a, b \in 1..Len(nodes[u].adj) :
              a < b => FirstIndex(<<u, nodes[u].adj[a]>>) < FirstIndex(<<u, nodes[u].adj[b]>>)
        /\ \A v \in Keys : \A a, b \in 1..Len(nodes[v].radj) :
              a < b => FirstIndex(<<nodes[v].radj[a], v>>) < FirstIndex(<<nodes[v].radj[b], v>>)

\* an edge list with a repeated pair and a self-edge, and a node with two
\* forward entries
C7_Witness ==
    /\ Built
    /\ \E j, k \in 1..Len(edges) : j < k /\ edges[j] = edges[k]
    /\ \E k \in 1..Len(edges) : edges[k][1] = edges[k][2]
    /\ \E u \in Keys : Len(nodes[u].adj) >= 2

\* ---------------------------------------------------------------- marker notions
Max(S) == CHOOSE x \in S : \A y \in S : y <= x

IsCmd(m) == "group4" \in DOMAIN m
IsLabel(m) == IsCmd(m) /\ m.group4 = "label"
IsDep(m) == ~IsCmd(m)

\* a \begin or \end of an environment of the ignore set
IsBoundary(m) == IsCmd(m) /\ m.group4 \in {"begin", "end"} /\ m.group5 \in ignore_envs

\* match k of document d lies in an ignored region: the last boundary before
\* it is a \begin
IgnoringAt(d, k) ==
    LET B == {j \in 1..(k - 1) : IsBoundary(d[j])}
    IN  B # {} /\ d[Max(B)].group4 = "begin"

\* the label of the last \label before match k of d outside ignored regions
DeclaredAt(d, k) ==
    LET D == {j \in 1..(k - 1) : IsLabel(d[j]) /\ ~IgnoringAt(d, j)}
    IN  IF D = {} THEN <<>> ELSE d[Max(D)].group5

\* p is a prefix of s
IsPrefix(p, s) == Len(p) <= Len(s) /\ \A k \in 1..Len(p) : s[k] = p[k]
HasExcludedPrefix(s) == \E p \in exclude_prefixes : IsPrefix(p, s)

\* the comma-separated fields of s: field j lies between the (j-1)-th and the
\* j-th comma
Fields(s) ==
    LET commas == {k \in 1..Len(s) : s[k] = Comma}
        marks == commas \cup {0, Len(s) + 1}
        mark(n) == CHOOSE b \in marks : Cardinality({c \in marks : c < b}) = n
    IN  [j \in 1..(Cardinality(commas) + 1) |-> SubSeq(s, mark(j - 1) + 1, mark(j) - 1)]

\* the target of the edge marker at position k of d
TargetAt(d, k) == IF d[k].group3 # <<>> THEN d[k].group3 ELSE DeclaredAt(d, k)

\* the pairs the match at position k of d contributes to the edge list
PairsAt(d, k) ==
    IF IsCmd(d[k]) \/ IgnoringAt(d, k) THEN <<>>
    ELSE LET t == TargetAt(d, k)
             allowed(x) == ~HasExcludedPrefix(x) /\ ~HasExcludedPrefix(t)
             deps == SelectSeq(Fields(d[k].group2), allowed)
         IN  [j \in 1..Len(deps) |-> <<t, deps[j]>>]

RECURSIVE PairsUpTo(_, _)
PairsUpTo(d, k) == IF k = 0 THEN <<>> ELSE PairsUpTo(d, k - 1) \o PairsAt(d, k)

RECURSIVE PairsOfDocs(_)
PairsOfDocs(ds) ==
    IF ds = <<>> THEN <<>>
    ELSE PairsOfDocs(SubSeq(ds, 1, Len(ds) - 1)) \o PairsUpTo(ds[Len(ds)], Len(ds[Len(ds)]))

\* the step processes a match of the document extract() is working on
MatchStep == Len(docs') = Len(docs) /\ docs' # docs
LastMatch == docs[Len(docs)][Len(docs[Len(docs)])]

\* C8: while ignore_mode is set, a match appends no edge, leaves curr_node as
\* it is and prints no warning; neither does the \begin that sets the flag, so
\* curr_node is the same after an ignored region as before it.
C8_IgnoredMarkersSkipped ==
    [][(MatchStep /\ (ignore_mode \/ ignore_mode')) =>
          /\ edges' = edges
          /\ curr_node' = curr_node
          /\ warnings' = warnings
          /\ empty_thm_warned' = empty_thm_warned]_vars

\* a \label set curr_node, an ignored region was opened, and the last match is
\* an edge marker inside it that would otherwise have produced an edge
C8_Witness ==
    /\ docs # <<>>
    /\ Len(docs[Len(docs)]) >= 3
    /\ ignore_mode
    /\ curr_node # <<>>
    /\ exclude_prefixes = {}
    /\ IsDep(LastMatch)
    /\ edges = <<>>

\* C9: every edge a processed edge marker appends has as target the marker's
\* thm text when it is not empty, and otherwise the label of the last \label
\* processed outside ignored regions in the same document (the empty string
\* when there is none); \label{A} followed by an edge marker with dependency B
\* and an empty thm yields exactly the edge (A, B).
C9_TargetResolution ==
    [][(MatchStep /\ ~ignore_mode) =>
          LET d == docs'[Len(docs')]
              k == Len(d)
          IN  /\ IsDep(d[k]) =>
                    \A j \in (Len(edges) + 1)..Len(edges') : edges'[j][1] = TargetAt(d, k)
              /\ \A A, B \in ArgTexts \ {<<>>} :
                    (/\ docs' = <<<<CmdMatch("label", A), DepMatch(B, <<>>)>>>>
                     /\ ~HasExcludedPrefix(A)
                     /\ ~HasExcludedPrefix(B))
                        => edges' = <<<<A, B>>>>]_vars

\* the last match is an edge marker with an empty thm, processed after a
\* \label, and the edge it appended has that label as target
C9_Witness ==
    /\ docs # <<>>
    /\ Len(docs[Len(docs)]) >= 2
    /\ ~ignore_mode
    /\ IsDep(LastMatch)
    /\ LastMatch.group3 = <<>>
    /\ curr_node # <<>>
    /\ edges # <<>>
    /\ edges[Len(edges)][1] = curr_node

\* C10: the edge list is, in encounter order, the pairs (target, d) of every
\* processed edge marker and every comma-separated field d of its first
\* argument such that neither d nor the target starts with an excluded
\* prefix; a pair met again is appended again.
C10_EdgeListExact ==
    /\ edges = PairsOfDocs(docs)
    /\ \A k \in 1..Len(edges) :
          ~HasExcludedPrefix(edges[k][1]) /\ ~HasExcludedPrefix(edges[k][2])

\* the edge list holds a pair twice, and a processed edge marker lost one of
\* its dependencies to an excluded prefix and kept another
C10_Witness ==
    /\ pc = "main"
    /\ \E j, k \in 1..Len(edges) : j < k /\ edges[j] = edges[k]
    /\ \E n \in 1..Len(docs) : \E k \in 1..Len(docs[n]) :
          /\ IsDep(docs[n][k])
          /\ PairsAt(docs[n], k) # <<>>
          /\ Len(PairsAt(docs[n], k)) < Len(Fields(docs[n][k].group2))

\* the edge markers of d that are processed with an empty thm while no label
\* is current
EmptyTargetAt(d) ==
    {k \in 1..Len(d) :
        /\ IsDep(d[k])
        /\ ~IgnoringAt(d, k)
        /\ d[k].group3 = <<>>
        /\ DeclaredAt(d, k) = <<>>}

\* C11: one extract() call prints at most one warning, and prints one exactly
\* when some edge marker is processed with an empty thm while curr_node is
\* empty; the marker that draws the warning still appends its edges, with the
\* empty string as target.
C11_OneWarning ==
    [][MatchStep =>
          LET d == docs'[Len(docs')]
              k == Len(d)
          IN  /\ Len(warnings') <= 1
              /\ (Len(warnings') = 1) <=> (EmptyTargetAt(d) # {})
              /\ empty_thm_warned' <=> (EmptyTargetAt(d) # {})
              /\ warnings' # warnings =>
                    /\ warnings' = Append(warnings, Len(docs))
                    /\ k \in EmptyTargetAt(d)
                    /\ Len(edges') - Len(edges) =
                          Cardinality({j \in DOMAIN Fields(d[k].group2) :
                                          ~HasExcludedPrefix(Fields(d[k].group2)[j])
                                              /\ ~HasExcludedPrefix(<<>>)})
                    /\ \A j \in (Len(edges) + 1)..Len(edges') : edges'[j][1] = <<>>]_vars

\* two edge markers met the empty label, one warning was printed and the
\* edges have the empty string as target
C11_Witness ==
    /\ docs # <<>>
    /\ Cardinality(EmptyTargetAt(docs[Len(docs)])) >= 2
    /\ warnings = <<1>>
    /\ Len(edges) >= 2
    /\ \A k \in 1..Len(edges) : edges[k][1] = <<>>

\* C16: ignore_mode is set exactly when the last \begin or \end of an
\* environment of the ignore set is a \begin: a \begin inside an ignored
\* region does not nest, an \end of any environment of the set ends the
\* region, other environments never change the flag.
C16_IgnoreFlag ==
    (pc = "main" /\ docs # <<>>) =>
        ignore_mode = IgnoringAt(docs[Len(docs)], Len(docs[Len(docs)]) + 1)

\* two regions of the ignore set were opened one inside the other and one
\* \end, of another name than the first \begin, has cleared the flag
C16_Witness ==
    /\ docs # <<>>
    /\ LET d == docs[Len(docs)]
       IN  /\ Len(d) = 3
           /\ IsBoundary(d[1]) /\ d[1].group4 = "begin"
           /\ IsBoundary(d[2]) /\ d[2].group4 = "begin"
           /\ IsBoundary(d[3]) /\ d[3].group4 = "end"
           /\ d[3].group5 # d[1].group5
    /\ ~ignore_mode

\* a label of the edge list is no longer a key: the filter dropped a node
SomeDropped == \E k \in 1..Len(edges) : edges[k][1] \notin Keys \/ edges[k][2] \notin Keys

\* C13: the filter run again with the same threshold on the mapping it
\* produced removes no node and leaves every adjacency list as it is.
C13_FilterIdempotent ==
    [][(pc = "done" /\ pc' = "filtered twice") => nodes' = nodes]_vars

\* the filter ran twice, the first run dropped a node and left a node with a
\* list of two entries
C13_Witness ==
    /\ pc = "filtered twice"
    /\ SomeDropped
    /\ \E u \in Keys : Len(nodes[u].radj) >= 2

Min(S) == CHOOSE x \in S : \A y \in S : x <= y

\* the distances that are set among the backward neighbours of v
PredDists(v) ==
    {Val(nodes[p].dist) : p \in {x \in Range(nodes[v].radj) : nodes[x].dist # None}}

\* C14: after bfs(), along every forward edge u -> v with dist(u) set, dist(v)
\* is set and at most dist(u) + 1; a node with backward neighbours and a
\* distance has 1 + the least distance set among its backward neighbours.
C14_EdgeRelaxed ==
    AfterBfs =>
        /\ \A u \in Keys : \A v \in Range(nodes[u].adj) :
              nodes[u].dist # None =>
                  /\ nodes[v].dist # None
                  /\ Val(nodes[v].dist) <= Val(nodes[u].dist) + 1
        /\ \A v \in Keys :
              (Len(nodes[v].radj) > 0 /\ nodes[v].dist # None) =>
                  /\ PredDists(v) # {}
                  /\ Val(nodes[v].dist) = 1 + Min(PredDists(v))

\* a node with two backward neighbours at different distances
C14_Witness ==
    /\ AfterBfs
    /\ \E v \in Keys : Cardinality(PredDists(v)) >= 2

\* C18: in bfs(), a distance that is set is never raised by a later step, the
\* distance of a visited node does not change, and a distance that is set is
\* never below the least number of hops from a root.
C18_DistanceMonotone ==
    [][pc = "bfs" =>
          \A v \in Keys :
              /\ nodes[v].dist # None =>
                    /\ nodes'[v].dist # None
                    /\ Val(nodes'[v].dist) <= Val(nodes[v].dist)
                    /\ v \in Reachable
                    /\ Val(nodes[v].dist) >= Hops(v)
              /\ nodes[v].visited =>
                    /\ nodes'[v].visited
                    /\ nodes'[v].dist = nodes[v].dist]_vars

\* bfs() is under way: a node with a distance is still unvisited and has a
\* visited backward neighbour through which it would be farther
C18_Witness ==
    /\ pc = "bfs"
    /\ \E v \in Keys : \E p \in Range(nodes[v].radj) :
          /\ ~nodes[v].visited
          /\ nodes[v].dist # None
          /\ nodes[p].visited
          /\ Val(nodes[p].dist) + 1 > Val(nodes[v].dist)

\* C20: after the filter, a retained node without backward neighbours has
\* distance 0, a retained node at distance d > 0 has a retained backward
\* neighbour at distance d - 1, and the distances are the least numbers of
\* hops from the roots of the filtered graph.
C20_FilterKeepsRoots ==
    pc = "done" =>
        \A v \in Keys :
            /\ Len(nodes[v].radj) = 0 => nodes[v].dist = Some(0)
            /\ (nodes[v].dist # None /\ Val(nodes[v].dist) > 0) =>
                  \E p \in Range(nodes[v].radj) :
                      p \in Keys /\ nodes[p].dist = Some(Val(nodes[v].dist) - 1)
            /\ (v \in Reachable) <=> (nodes[v].dist # None)
            /\ v \in Reachable => nodes[v].dist = Some(Hops(v))

\* the filter dropped a node and retained one that is not a root
C20_Witness ==
    /\ pc = "done"
    /\ SomeDropped
    /\ \E v \in Keys : nodes[v].dist # None /\ Val(nodes[v].dist) > 0

\* C17: bfs() terminates on every graph, with cycles and self-edges or not:
\* the queue becomes empty, no node's adj is expanded more than once, and
\* q.append is called at most (number of roots + number of distinct edges)
\* times.
C17_BfsTerminates ==
    /\ (pc = "bfs") ~> (pc = "bfs" /\ q = <<>>)
    /\ [](\A u \in Labels : CopiesIn(u, expansions) <= 1)
    /\ [](pc \in {"bfs", "filter"} =>
            enqueues <= Cardinality(RootSet) + Cardinality(Range(edges)))

\* bfs() has returned from a graph in which a visited node lies on a cycle
\* of one or two edges
C17_Witness ==
    /\ pc = "filter"
    /\ \E u, v \in Keys :
          /\ nodes[u].visited
          /\ v \in Range(nodes[u].adj)
          /\ u \in Range(nodes[v].adj)
          /\ CopiesIn(u, expansions) = 1
    /\ enqueues >= 2

\* the files of ds that print the warning, in the order of the command line
WarnedDocs(ds) ==
    LET warns(k) == EmptyTargetAt(ds[k]) # {}
    IN  SelectSeq([k \in 1..Len(ds) |-> k], warns)

\* C12: over several files, the edge list is the concatenation of the lists
\* each file yields on its own, a file prints the warning exactly when it
\* holds on its own an edge marker with no target and no label before it, and
\* the current label, the ignore flag and the warned flag are those the file
\* being read yields on its own.
C12_FilesIndependent ==
    /\ edges = PairsOfDocs(docs)
    /\ warnings = WarnedDocs(docs)
    /\ docs # <<>> =>
          LET d == docs[Len(docs)]
          IN  /\ curr_node = DeclaredAt(d, Len(d) + 1)
              /\ ignore_mode = IgnoringAt(d, Len(d) + 1)
              /\ empty_thm_warned = (EmptyTargetAt(d) # {})

\* the first file ends inside an ignored region, the second file holds an
\* edge marker without a target that yields an edge and the warning
C12_Witness ==
    /\ Len(docs) = 2
    /\ IgnoringAt(docs[1], Len(docs[1]) + 1)
    /\ warnings = <<2>>
    /\ edges # <<>>

NodesOf(E) == {e[1] : e \in E} \cup {e[2] : e \in E}
RootsOf(E) == {u \in NodesOf(E) : \A e \in E : e[2] # u}

\* D extended by k for the nodes of front, then by k + 1 for the nodes one
\* edge of E further that have no distance yet, and so on
RECURSIVE Sweep(_, _, _, _)
Sweep(E, k, front, D) ==
    IF front = {} THEN D
    ELSE LET reached == [v \in DOMAIN D |-> IF v \in front THEN Some(k) ELSE D[v]]
             further == {e[2] : e \in {x \in E : x[1] \in front}}
         IN  Sweep(E, k + 1, {v \in further : reached[v] = None}, reached)

\* the least number of edges of E from a root, for every node of E that a
\* walk from a root reaches, None for the others
DistsIn(E) == Sweep(E, 0, RootsOf(E), [v \in NodesOf(E) |-> None])

\* the pairs the files yield when they are read in the order p
PairSetInOrder(p) == Range(PairsOfDocs([k \in 1..Len(docs) |-> docs[p[k]]]))

\* C15: whatever the order of the files, the nodes, the edges, the distances
\* and the nodes the filter retains are those of the set of pairs the files
\* yield in that order, so they are the same for every order.
C15_DocumentOrder ==
    pc \in {"filter", "done", "TypeError"} =>
        \A p \in Permutations(1..Len(docs)) :
            LET E == PairSetInOrder(p)
                N == NodesOf(E)
                D == DistsIn(E)
                R == {v \in N : max_dist = None \/ D[v] = None \/ Val(D[v]) <= Val(max_dist)}
            IN  /\ pc = "filter" =>
                      /\ Keys = N
                      /\ \A u \in Keys :
                            /\ Range(nodes[u].adj) = {v \in N : <<u, v>> \in E}
                            /\ Range(nodes[u].radj) = {v \in N : <<v, u>> \in E}
                            /\ nodes[u].dist = D[u]
                /\ pc = "done" =>
                      /\ Keys = R
                      /\ \A u \in Keys :
                            /\ Range(nodes[u].adj) = {v \in R : <<u, v>> \in E}
                            /\ Range(nodes[u].radj) = {v \in R : <<v, u>> \in E}
                            /\ nodes[u].dist = D[u]
                /\ pc = "TypeError" => \E v \in N : D[v] = None

\* the filter has dropped a node of a graph whose edge list would be another
\* one with the two files in the other order
C15_Witness ==
    /\ pc = "done"
    /\ Len(docs) = 2
    /\ PairsOfDocs(<<docs[2], docs[1]>>) # edges
    /\ max_dist # None
    /\ SomeDropped
    /\ Keys # {}

\* position k of s lies between a % that no backslash precedes and the end
\* of the line of that %
InComment(s, k) ==
    \E j \in 1..(k - 1) :
        /\ s[j] = Percent
        /\ j > 1 => s[j - 1] # Backslash
        /\ \A m \in j..(k - 1) : s[m] # Newline

\* the markers of s outside comments, from left to right
VisibleMarkers(s) ==
    LET P == {k \in 1..Len(s) : s[k] \in ScanMarkers /\ ~InComment(s, k)}
        nth(n) == CHOOSE k \in P : Cardinality({j \in P : j < k}) = n - 1
    IN  [n \in 1..Cardinality(P) |-> s[nth(n)]]

\* C19: extract() recognizes no marker that lies in a comment, on whatever
\* line, the last line without a newline included: the matches it handles
\* are the markers outside comments, and the edges, the current label and the
\* ignore flag are those that these markers yield.
C19_CommentsSkipped ==
    docs # <<>> =>
        LET vis == VisibleMarkers(text)
            n == Len(docs[1])
        IN  /\ n <= Len(vis)
            /\ docs[1] = SubSeq(vis, 1, n)
            /\ edges = PairsUpTo(vis, n)
            /\ curr_node = DeclaredAt(vis, n + 1)
            /\ ignore_mode = IgnoringAt(vis, n + 1)

====
